---- MODULE Spec2Model ----
(***************************************************************************)
(* gpu-cpu-test (fil-proofs-tooling/src/bin/gpu-cpu-test/main.rs): a       *)
(* Supervisor (main) spawns one or two Worker threads (thread_fun), sleeps *)
(* for TIMEOUT, sends a cancellation message on every Worker's channel and *)
(* joins the Workers, printing each one's RunInfo.                         *)
(*                                                                         *)
(* The collaborators outside the repository are modelled by their         *)
(* possible outcomes: gpu::acquire_gpu() returns Ok or Err,                *)
(* gpu::gpu_is_available() returns Ok(true), Ok(false) or Err,             *)
(* election_post::do_generate_post returns or panics (or never returns:    *)
(* the plain specification states no fairness), thread::Builder::spawn     *)
(* returns Ok or Err.  Wall-clock time is not modelled: the end of         *)
(* thread::sleep(timeout) is one step of main, RunInfo.elapsed is left out.*)
(*                                                                         *)
(* paramcache (filecoin-proofs/src/bin/paramcache.rs) is a second program: *)
(* its main walks the selected sector sizes and calls cache_post_params    *)
(* and, unless --only-election-post is given, cache_porep_params for each. *)
(* Its steps are the actions paramcache_*, its specification is            *)
(* SpecParamcache; in the specifications of gpu-cpu-test it never starts.  *)
(***************************************************************************)
EXTENDS Integers, Sequences, FiniteSets, TLC

\* Width of the iteration counter in the two-Worker specification Spec.
IterBits == 2
\* Width of RunInfo.iterations (u8), used as is by the one-Worker
\* specification SpecU8.
U8Bits == 8

Workers == {"high", "low"}

\* The sector sizes a paramcache command line can name (u64 in the program),
\* and how many of them PUBLISHED_SECTOR_SIZES lists.
NumSizes == 3
NumPublished == 2
SectorSizes == 1..NumSizes
PUBLISHED_SECTOR_SIZES == 1..NumPublished

VARIABLES
    \* --- configuration (main.rs 125, 131) and the counter's width
    parallel,        \* value_t!(matches, "parallel", bool)
    gpu_stealing,    \* value_t!(matches, "gpu-stealing", bool)
    bits,            \* width of `iteration` in bits; never changes
    \* --- main
    mpc,             \* position of main
    fixtures,        \* priv_replica_info and candidates have been generated
    senders,         \* Vec<Sender<()>>: channel ids, in push order
    threads,         \* Vec<Option<JoinHandle>>: Worker name or "None"
    ti,              \* index of `for thread in &mut threads`
    run_info,        \* <<thread_name, run_info>> of the join just done, or <<>>
    report,          \* the lines info!("Thread {} info: {:?}") has printed
    \* --- channels made by mpsc::channel() in spawn_thread
    chans,           \* Seq of [msgs, tx, rx, sent]
    \* --- one thread_fun per Worker
    wpc,             \* position of thread_fun; "none" before the spawn
    iteration,       \* `iteration`
    gpu_lock,        \* whether `gpu_lock` is held
    stealing,        \* thread_fun's gpu_stealing parameter
    rxid,            \* the channel whose Receiver thread_fun owns (0: none)
    result,          \* the RunInfo thread_fun returned, or <<>>
    \* --- history (written, never read, by the program's steps)
    lock_ops,        \* the gpu:: operations a Worker has called so far
    polled,          \* what gpu_is_available() last returned since acquire_gpu()
    completed,       \* do_generate_post calls that have returned
    since,           \* per Worker: what it did after its signal was sent
    stop_cause,      \* why the loop was left: "signal", "closed", "ceiling"
    timed_out,       \* thread::sleep(timeout) has returned
    ceil_at_timeout, \* some Worker's counter was at the ceiling by then
    panic_cause,     \* which unwrap/expect of main panicked
    failed_send,     \* the channel on which tx.send(()) returned Err (0: none)
    \* --- paramcache: command line and POREP_PARTITIONS
    z_present,           \* matches.is_present("params-for-sector-sizes")
    z_values,            \* the values of --params-for-sector-sizes
    only_election_post,  \* matches.is_present("only-election-post")
    POREP_PARTITIONS,    \* the sector sizes POREP_PARTITIONS has an entry for
    \* --- paramcache: main
    ppc,                 \* position of paramcache's main; "none": not run
    sizes,               \* the sizes `for sector_size in sizes` has yet to yield
    sector_size,         \* `sector_size` of the current loop body (0: none)
    \* --- paramcache: history
    selected,            \* `sizes` as first built
    calls,               \* the cache_*_params calls made so far, in order
    ppanic               \* which unwrap/expect of paramcache panicked

cfgv   == <<parallel, gpu_stealing, bits>>
mainv  == <<mpc, fixtures, senders, threads, ti, run_info, report>>
workv  == <<wpc, iteration, gpu_lock, stealing, rxid, result>>
histw  == <<lock_ops, polled, completed, since, stop_cause>>
histm  == <<timed_out, ceil_at_timeout, panic_cause, failed_send>>
gpuv   == <<cfgv, mainv, chans, workv, histw, histm>>
pcv    == <<z_present, z_values, only_election_post, POREP_PARTITIONS,
            ppc, sizes, sector_size, selected, calls, ppanic>>
vars   == <<gpuv, pcv>>

\* std::u8::MAX for a counter of `bits` bits.
U8_MAX == 2^bits - 1

\* RunInfo { elapsed, iterations } without the wall-clock field.
RunInfo(n) == [iterations |-> n]

NoSince == [sig |-> FALSE, started |-> 0, completed |-> 0, incr |-> 0]

InitCommon ==
    /\ parallel \in BOOLEAN
    /\ gpu_stealing \in BOOLEAN
    /\ mpc = "start"
    /\ fixtures = FALSE
    /\ senders = <<>>
    /\ threads = <<>>
    /\ ti = 1
    /\ run_info = <<>>
    /\ report = <<>>
    /\ chans = <<>>
    /\ wpc = [w \in Workers |-> "none"]
    /\ iteration = [w \in Workers |-> 0]
    /\ gpu_lock = [w \in Workers |-> FALSE]
    /\ stealing = [w \in Workers |-> FALSE]
    /\ rxid = [w \in Workers |-> 0]
    /\ result = [w \in Workers |-> <<>>]
    /\ lock_ops = [w \in Workers |-> {}]
    /\ polled = [w \in Workers |-> "none"]
    /\ completed = [w \in Workers |-> 0]
    /\ since = [w \in Workers |-> NoSince]
    /\ stop_cause = [w \in Workers |-> "none"]
    /\ timed_out = FALSE
    /\ ceil_at_timeout = FALSE
    /\ panic_cause = "none"
    /\ failed_send = 0

\* paramcache is not run.
ParamcacheIdle ==
    /\ z_present = FALSE
    /\ z_values = {}
    /\ only_election_post = FALSE
    /\ POREP_PARTITIONS = {}
    /\ ppc = "none"
    /\ sizes = {}
    /\ sector_size = 0
    /\ selected = {}
    /\ calls = <<>>
    /\ ppanic = "none"

Init == InitCommon /\ bits = IterBits /\ ParamcacheIdle

\* The one-Worker runs with the counter at its real width.
InitU8 == InitCommon /\ bits = U8Bits /\ parallel = FALSE /\ ParamcacheIdle

----------------------------------------------------------------------------
(* thread_fun                                                              *)

\* The process is still running: main has neither returned nor aborted.
ProcessRunning == mpc \notin {"exit", "aborted"}

\* Mutant of LoopCond: the test written with <=.
LoopCond_Inclusive(i) == i <= U8_MAX

\* `while iteration < std::u8::MAX`
LoopCond(i) == i < U8_MAX

\* `iteration += 1` on a u8
Incr(i) == (i + 1) % (2^bits)

\* rx.try_recv() on channel c: a queued message first, then Disconnected
\* when the Sender is gone, else Empty.
TryRecv(c) ==
    IF chans[c].msgs > 0 THEN "Ok"
    ELSE IF ~chans[c].tx THEN "Disconnected"
    ELSE "Empty"

\* Mutant of Breaks: a received message does not leave the loop.
Breaks_OnlyDisconnected(r) == r = "Disconnected"

\* Mutant of Breaks: a closed channel does not leave the loop.
Breaks_OnlyOk(r) == r = "Ok"

\* `Ok(_) | Err(TryRecvError::Disconnected) => break`
Breaks(r) == r \in {"Ok", "Disconnected"}

\* A panic inside thread_fun: the thread unwinds, dropping rx and gpu_lock.
WorkerPanic(w) ==
    /\ wpc' = [wpc EXCEPT ![w] = "panicked"]
    /\ gpu_lock' = [gpu_lock EXCEPT ![w] = FALSE]
    /\ chans' = [chans EXCEPT ![rxid[w]].rx = FALSE]

\* Mutant of thread_loop: the lock steps are taken whatever gpu_stealing is.
thread_loop_AlwaysSteal(w) ==
    /\ ProcessRunning
    /\ wpc[w] = "loop"
    /\ IF LoopCond(iteration[w])
       THEN /\ wpc' = [wpc EXCEPT ![w] = "acquire"]
            /\ UNCHANGED stop_cause
       ELSE /\ wpc' = [wpc EXCEPT ![w] = "ret"]
            /\ stop_cause' = [stop_cause EXCEPT ![w] = "ceiling"]
    /\ UNCHANGED <<pcv, cfgv, mainv, chans, histm>>
    /\ UNCHANGED <<iteration, gpu_lock, stealing, rxid, result>>
    /\ UNCHANGED <<lock_ops, polled, completed, since>>

\* `while iteration < std::u8::MAX {`, `if gpu_stealing {`
thread_loop(w) ==
    /\ ProcessRunning
    /\ wpc[w] = "loop"
    /\ IF LoopCond(iteration[w])
       THEN /\ wpc' = [wpc EXCEPT ![w] = IF stealing[w] THEN "acquire" ELSE "work"]
            /\ UNCHANGED stop_cause
       ELSE /\ wpc' = [wpc EXCEPT ![w] = "ret"]
            /\ stop_cause' = [stop_cause EXCEPT ![w] = "ceiling"]
    /\ UNCHANGED <<pcv, cfgv, mainv, chans, histm>>
    /\ UNCHANGED <<iteration, gpu_lock, stealing, rxid, result>>
    /\ UNCHANGED <<lock_ops, polled, completed, since>>

\* Mutant of thread_acquire: the handle is not bound (`let _ = ..`) and is
\* dropped at once.
thread_acquire_DropsAtOnce(w) ==
    /\ ProcessRunning
    /\ wpc[w] = "acquire"
    /\ lock_ops' = [lock_ops EXCEPT ![w] = @ \cup {"acquire"}]
    /\ polled' = [polled EXCEPT ![w] = "none"]
    /\ \E ok \in BOOLEAN :
         IF ok
         THEN /\ gpu_lock' = [gpu_lock EXCEPT ![w] = FALSE]
              /\ wpc' = [wpc EXCEPT ![w] = "poll"]
              /\ UNCHANGED chans
         ELSE WorkerPanic(w)
    /\ UNCHANGED <<pcv, cfgv, mainv, histm>>
    /\ UNCHANGED <<iteration, stealing, rxid, result>>
    /\ UNCHANGED <<completed, since, stop_cause>>

\* `let gpu_lock = gpu::acquire_gpu().unwrap();`
thread_acquire(w) ==
    /\ ProcessRunning
    /\ wpc[w] = "acquire"
    /\ lock_ops' = [lock_ops EXCEPT ![w] = @ \cup {"acquire"}]
    /\ polled' = [polled EXCEPT ![w] = "none"]
    /\ \E ok \in BOOLEAN :
         IF ok
         THEN /\ gpu_lock' = [gpu_lock EXCEPT ![w] = TRUE]
              /\ wpc' = [wpc EXCEPT ![w] = "poll"]
              /\ UNCHANGED chans
         ELSE WorkerPanic(w)
    /\ UNCHANGED <<pcv, cfgv, mainv, histm>>
    /\ UNCHANGED <<iteration, stealing, rxid, result>>
    /\ UNCHANGED <<completed, since, stop_cause>>

\* Mutant of Available: an Err counts as available.
Available_ErrIsTrue(r) == r \in {"Ok(true)", "Err"}

\* `.unwrap_or(false)` of what gpu_is_available() returned
Available(r) == IF r = "Err" THEN FALSE ELSE r = "Ok(true)"

\* `while !gpu::gpu_is_available().unwrap_or(false)`; r is what
\* gpu_is_available() returned.
thread_poll(w, r) ==
    /\ ProcessRunning
    /\ wpc[w] = "poll"
    /\ lock_ops' = [lock_ops EXCEPT ![w] = @ \cup {"is_available"}]
    /\ polled' = [polled EXCEPT ![w] = r]
    /\ wpc' = [wpc EXCEPT ![w] = IF Available(r) THEN "release" ELSE "poll_sleep"]
    /\ UNCHANGED <<pcv, cfgv, mainv, chans, histm>>
    /\ UNCHANGED <<iteration, gpu_lock, stealing, rxid, result>>
    /\ UNCHANGED <<completed, since, stop_cause>>

\* Mutant of thread_poll_sleep: the poll loop looks at the channel and
\* leaves thread_fun's loop on a message.
thread_poll_sleep_Cancellable(w) ==
    /\ ProcessRunning
    /\ wpc[w] = "poll_sleep"
    /\ IF chans[rxid[w]].msgs > 0
       THEN /\ wpc' = [wpc EXCEPT ![w] = "ret"]
            /\ stop_cause' = [stop_cause EXCEPT ![w] = "signal"]
       ELSE /\ wpc' = [wpc EXCEPT ![w] = "poll"]
            /\ UNCHANGED stop_cause
    /\ UNCHANGED <<pcv, cfgv, mainv, chans, histm>>
    /\ UNCHANGED <<lock_ops, polled, completed, since>>
    /\ UNCHANGED <<iteration, gpu_lock, stealing, rxid, result>>

\* `thread::sleep(Duration::from_millis(100));`
thread_poll_sleep(w) ==
    /\ ProcessRunning
    /\ wpc[w] = "poll_sleep"
    /\ wpc' = [wpc EXCEPT ![w] = "poll"]
    /\ UNCHANGED <<pcv, cfgv, mainv, chans, histw, histm>>
    /\ UNCHANGED <<iteration, gpu_lock, stealing, rxid, result>>

\* Mutant of thread_release: the handle outlives the lock block.
thread_release_KeepsHandle(w) ==
    /\ ProcessRunning
    /\ wpc[w] = "release"
    /\ lock_ops' = [lock_ops EXCEPT ![w] = @ \cup {"release"}]
    /\ wpc' = [wpc EXCEPT ![w] = "work"]
    /\ UNCHANGED <<pcv, cfgv, mainv, chans, histm>>
    /\ UNCHANGED <<iteration, gpu_lock, stealing, rxid, result>>
    /\ UNCHANGED <<polled, completed, since, stop_cause>>

\* `gpu::drop_acquire_lock(gpu_lock);`
thread_release(w) ==
    /\ ProcessRunning
    /\ wpc[w] = "release"
    /\ lock_ops' = [lock_ops EXCEPT ![w] = @ \cup {"release"}]
    /\ gpu_lock' = [gpu_lock EXCEPT ![w] = FALSE]
    /\ wpc' = [wpc EXCEPT ![w] = "work"]
    /\ UNCHANGED <<pcv, cfgv, mainv, chans, histm>>
    /\ UNCHANGED <<iteration, stealing, rxid, result>>
    /\ UNCHANGED <<polled, completed, since, stop_cause>>

\* election_post::do_generate_post is called ...
thread_work_start(w) ==
    /\ ProcessRunning
    /\ wpc[w] = "work"
    /\ wpc' = [wpc EXCEPT ![w] = "working"]
    /\ since' = [since EXCEPT ![w].started = IF since[w].sig THEN @ + 1 ELSE @]
    /\ UNCHANGED <<pcv, cfgv, mainv, chans, histm>>
    /\ UNCHANGED <<iteration, gpu_lock, stealing, rxid, result>>
    /\ UNCHANGED <<lock_ops, polled, completed, stop_cause>>

\* ... and returns, or panics.
thread_work_end(w) ==
    /\ ProcessRunning
    /\ wpc[w] = "working"
    /\ \E ok \in BOOLEAN :
         IF ok
         THEN /\ wpc' = [wpc EXCEPT ![w] = "recv"]
              /\ completed' = [completed EXCEPT ![w] = @ + 1]
              /\ since' = [since EXCEPT ![w].completed =
                              IF since[w].sig THEN @ + 1 ELSE @]
              /\ UNCHANGED <<chans, gpu_lock>>
         ELSE /\ WorkerPanic(w)
              /\ UNCHANGED <<completed, since>>
    /\ UNCHANGED <<pcv, cfgv, mainv, histm>>
    /\ UNCHANGED <<iteration, stealing, rxid, result>>
    /\ UNCHANGED <<lock_ops, polled, stop_cause>>

\* `match rx.try_recv() { ... }`
thread_recv(w) ==
    /\ ProcessRunning
    /\ wpc[w] = "recv"
    /\ LET c == rxid[w]
           r == TryRecv(c)
       IN  /\ chans' = IF r = "Ok" THEN [chans EXCEPT ![c].msgs = @ - 1] ELSE chans
           /\ IF Breaks(r)
              THEN /\ wpc' = [wpc EXCEPT ![w] = "ret"]
                   /\ stop_cause' = [stop_cause EXCEPT ![w] =
                                        IF r = "Ok" THEN "signal" ELSE "closed"]
              ELSE /\ wpc' = [wpc EXCEPT ![w] = "incr"]
                   /\ UNCHANGED stop_cause
    /\ UNCHANGED <<pcv, cfgv, mainv, histm>>
    /\ UNCHANGED <<iteration, gpu_lock, stealing, rxid, result>>
    /\ UNCHANGED <<lock_ops, polled, completed, since>>

\* `iteration += 1;`
thread_incr(w) ==
    /\ ProcessRunning
    /\ wpc[w] = "incr"
    /\ iteration' = [iteration EXCEPT ![w] = Incr(@)]
    /\ wpc' = [wpc EXCEPT ![w] = "loop"]
    /\ since' = [since EXCEPT ![w].incr = IF since[w].sig THEN @ + 1 ELSE @]
    /\ UNCHANGED <<pcv, cfgv, mainv, chans, histm>>
    /\ UNCHANGED <<gpu_lock, stealing, rxid, result>>
    /\ UNCHANGED <<lock_ops, polled, completed, stop_cause>>

\* `RunInfo { elapsed, iterations: iteration }` is returned; rx is dropped.
thread_return(w) ==
    /\ ProcessRunning
    /\ wpc[w] = "ret"
    /\ result' = [result EXCEPT ![w] = RunInfo(iteration[w])]
    /\ chans' = [chans EXCEPT ![rxid[w]].rx = FALSE]
    /\ wpc' = [wpc EXCEPT ![w] = "stopped"]
    /\ UNCHANGED <<pcv, cfgv, mainv, histw, histm>>
    /\ UNCHANGED <<iteration, gpu_lock, stealing, rxid>>

PollResults == {"Ok(true)", "Ok(false)", "Err"}

thread_fun(w) ==
    \/ thread_loop(w)
    \/ thread_acquire(w)
    \/ \E r \in PollResults : thread_poll(w, r)
    \/ thread_poll_sleep(w)
    \/ thread_release(w)
    \/ thread_work_start(w)
    \/ thread_work_end(w)
    \/ thread_recv(w)
    \/ thread_incr(w)
    \/ thread_return(w)

----------------------------------------------------------------------------
(* spawn_thread and main                                                   *)

\* A channel as mpsc::channel() returns it; `sent` counts the send() calls
\* that returned Ok.
NewChannel == [msgs |-> 0, tx |-> TRUE, rx |-> TRUE, sent |-> 0]

\* The Worker whose thread_fun owns the Receiver of channel c.
OwnerOf(c) == CHOOSE w \in Workers : rxid[w] = c

\* The Senders of the channels in ids are dropped.
DropSenders(ch, ids) ==
    [i \in DOMAIN ch |-> IF i \in ids THEN [ch[i] EXCEPT !.tx = FALSE] ELSE ch[i]]

Range(s) == {s[i] : i \in DOMAIN s}

\* spawn_thread(name, gpu_stealing, ..): a fresh channel, and a thread that
\* runs thread_fun(rx, gpu_stealing, ..) from its first line; `ok` is whether
\* Builder::spawn returned Ok. It returns (tx, handler): the new channel's
\* id, Len(chans) + 1, and the thread's name.
spawn_thread(name, steal, ok) ==
    IF ok
    THEN /\ chans' = Append(chans, NewChannel)
         /\ wpc' = [wpc EXCEPT ![name] = "loop"]
         /\ iteration' = [iteration EXCEPT ![name] = 0]
         /\ stealing' = [stealing EXCEPT ![name] = steal]
         /\ rxid' = [rxid EXCEPT ![name] = Len(chans) + 1]
         /\ UNCHANGED panic_cause
    ELSE \* .expect("Could not spawn thread") panics; main unwinds and
         \* drops the Senders it holds
         /\ chans' = DropSenders(chans, Range(senders))
         /\ panic_cause' = "spawn"
         /\ UNCHANGED <<wpc, iteration, stealing, rxid>>

\* `senders.push(tx); threads.push(Some(handler));` after a spawn_thread
\* that returned, the unwinding of main after one that panicked; then main
\* goes on at `next`.
PushOrUnwind(name, ok, next) ==
    IF ok
    THEN /\ senders' = Append(senders, Len(chans) + 1)
         /\ threads' = Append(threads, name)
         /\ mpc' = next
    ELSE /\ senders' = <<>>
         /\ threads' = <<>>
         /\ mpc' = "panicked"

\* generate_priv_replica_info_fixture, generate_candidates_fixture
main_fixtures ==
    /\ mpc = "start"
    /\ mpc' = "spawn_high"
    /\ fixtures' = TRUE
    /\ UNCHANGED <<pcv, cfgv, chans, workv, histw, histm>>
    /\ UNCHANGED <<senders, threads, ti, run_info, report>>

\* `spawn_thread("high", gpu_stealing, ..)`, then the two pushes
main_spawn_high ==
    /\ mpc = "spawn_high"
    /\ \E ok \in BOOLEAN :
         /\ spawn_thread("high", gpu_stealing, ok)
         /\ PushOrUnwind("high", ok, "spawn_low")
    /\ UNCHANGED <<pcv, cfgv, histw>>
    /\ UNCHANGED <<fixtures, ti, run_info, report>>
    /\ UNCHANGED <<gpu_lock, result>>
    /\ UNCHANGED <<timed_out, ceil_at_timeout, failed_send>>

\* Mutant of main_spawn_low: "low" is spawned whatever `parallel` is.
main_spawn_low_Unconditional ==
    /\ mpc = "spawn_low"
    /\ \E ok \in BOOLEAN :
         /\ spawn_thread("low", FALSE, ok)
         /\ PushOrUnwind("low", ok, "sleep")
    /\ UNCHANGED <<pcv, cfgv, histw>>
    /\ UNCHANGED <<fixtures, ti, run_info, report>>
    /\ UNCHANGED <<gpu_lock, result>>
    /\ UNCHANGED <<timed_out, ceil_at_timeout, failed_send>>

\* Mutant of main_spawn_low: the send loop follows without the sleep.
main_spawn_low_NoSleep ==
    /\ mpc = "spawn_low"
    /\ IF parallel
       THEN \E ok \in BOOLEAN :
              /\ spawn_thread("low", FALSE, ok)
              /\ PushOrUnwind("low", ok, "send")
       ELSE /\ mpc' = "send"
            /\ UNCHANGED <<chans, wpc, iteration, stealing, rxid>>
            /\ UNCHANGED <<senders, threads, panic_cause>>
    /\ UNCHANGED <<pcv, cfgv, histw>>
    /\ UNCHANGED <<fixtures, ti, run_info, report>>
    /\ UNCHANGED <<gpu_lock, result>>
    /\ UNCHANGED <<timed_out, ceil_at_timeout, failed_send>>

\* `if parallel { spawn_thread("low", false, ..) .. }`
main_spawn_low ==
    /\ mpc = "spawn_low"
    /\ IF parallel
       THEN \E ok \in BOOLEAN :
              /\ spawn_thread("low", FALSE, ok)
              /\ PushOrUnwind("low", ok, "sleep")
       ELSE /\ mpc' = "sleep"
            /\ UNCHANGED <<chans, wpc, iteration, stealing, rxid>>
            /\ UNCHANGED <<senders, threads, panic_cause>>
    /\ UNCHANGED <<pcv, cfgv, histw>>
    /\ UNCHANGED <<fixtures, ti, run_info, report>>
    /\ UNCHANGED <<gpu_lock, result>>
    /\ UNCHANGED <<timed_out, ceil_at_timeout, failed_send>>

\* `thread::sleep(timeout);` returns
main_sleep ==
    /\ mpc = "sleep"
    /\ mpc' = "send"
    /\ timed_out' = TRUE
    /\ ceil_at_timeout' = (\E w \in Workers : iteration[w] = U8_MAX)
    /\ UNCHANGED <<pcv, cfgv, chans, workv, histw>>
    /\ UNCHANGED <<fixtures, senders, threads, ti, run_info, report>>
    /\ UNCHANGED <<panic_cause, failed_send>>

\* tx.send(()) on channel c: Err exactly when the Receiver is gone.
SendResult(c) == IF chans[c].rx THEN "Ok" ELSE "Err"

\* Mutant of main_send: the body sends on each Sender a second time before
\* it drops it.
main_send_Twice ==
    /\ mpc = "send"
    /\ senders # <<>>
    /\ LET c == Head(senders)
       IN  IF SendResult(c) = "Ok"
           THEN /\ chans' = [chans EXCEPT ![c].msgs = @ + 1,
                                          ![c].sent = @ + 1,
                                          ![c].tx = (chans[c].sent = 0)]
                /\ since' = [since EXCEPT ![OwnerOf(c)].sig = TRUE]
                /\ senders' = IF chans[c].sent = 0 THEN senders ELSE Tail(senders)
                /\ mpc' = IF chans[c].sent = 1 /\ Tail(senders) = <<>>
                          THEN "join" ELSE "send"
                /\ UNCHANGED <<threads, panic_cause, failed_send>>
           ELSE \* unwrap() panics; main unwinds
                /\ chans' = DropSenders(chans, Range(senders))
                /\ senders' = <<>>
                /\ threads' = <<>>
                /\ mpc' = "panicked"
                /\ panic_cause' = "send"
                /\ failed_send' = c
                /\ UNCHANGED since
    /\ UNCHANGED <<pcv, cfgv, workv>>
    /\ UNCHANGED <<fixtures, ti, run_info, report>>
    /\ UNCHANGED <<lock_ops, polled, completed, stop_cause>>
    /\ UNCHANGED <<timed_out, ceil_at_timeout>>

\* One round of `for tx in senders { tx.send(()).unwrap(); }`: the send,
\* the unwrap, and the drop of tx at the end of the body.
main_send ==
    /\ mpc = "send"
    /\ senders # <<>>
    /\ LET c == Head(senders)
       IN  IF SendResult(c) = "Ok"
           THEN /\ chans' = [chans EXCEPT ![c].msgs = @ + 1,
                                          ![c].sent = @ + 1,
                                          ![c].tx = FALSE]
                /\ since' = [since EXCEPT ![OwnerOf(c)].sig = TRUE]
                /\ senders' = Tail(senders)
                /\ mpc' = IF Tail(senders) = <<>> THEN "join" ELSE "send"
                /\ UNCHANGED <<threads, panic_cause, failed_send>>
           ELSE \* unwrap() panics; main unwinds
                /\ chans' = DropSenders(chans, Range(senders))
                /\ senders' = <<>>
                /\ threads' = <<>>
                /\ mpc' = "panicked"
                /\ panic_cause' = "send"
                /\ failed_send' = c
                /\ UNCHANGED since
    /\ UNCHANGED <<pcv, cfgv, workv>>
    /\ UNCHANGED <<fixtures, ti, run_info, report>>
    /\ UNCHANGED <<lock_ops, polled, completed, stop_cause>>
    /\ UNCHANGED <<timed_out, ceil_at_timeout>>

\* A thread has finished: join() no longer blocks.
Finished(w) == wpc[w] \in {"stopped", "panicked"}

\* Mutant of main_join: the name is taken from thread::current().
main_join_CurrentName ==
    /\ mpc = "join"
    /\ ti <= Len(threads)
    /\ LET h == threads[ti]
       IN  IF h = "None"
           THEN /\ ti' = ti + 1
                /\ UNCHANGED <<mpc, threads, run_info, panic_cause>>
           ELSE /\ Finished(h)
                /\ IF wpc[h] = "stopped"
                   THEN /\ threads' = [threads EXCEPT ![ti] = "None"]
                        /\ run_info' = <<"main", result[h]>>
                        /\ mpc' = "print"
                        /\ UNCHANGED panic_cause
                   ELSE \* join() returned Err: unwrap() panics
                        /\ threads' = <<>>
                        /\ mpc' = "panicked"
                        /\ panic_cause' = "join"
                        /\ UNCHANGED run_info
                /\ UNCHANGED ti
    /\ UNCHANGED <<pcv, cfgv, chans, workv, histw>>
    /\ UNCHANGED <<fixtures, senders, report>>
    /\ UNCHANGED <<timed_out, ceil_at_timeout, failed_send>>

\* Mutant of main_join: an Err from join() is skipped instead of unwrapped.
main_join_IgnoreErr ==
    /\ mpc = "join"
    /\ ti <= Len(threads)
    /\ LET h == threads[ti]
       IN  IF h = "None"
           THEN /\ ti' = ti + 1
                /\ UNCHANGED <<mpc, threads, run_info, panic_cause>>
           ELSE /\ Finished(h)
                /\ IF wpc[h] = "stopped"
                   THEN /\ threads' = [threads EXCEPT ![ti] = "None"]
                        /\ run_info' = <<h, result[h]>>
                        /\ mpc' = "print"
                        /\ UNCHANGED panic_cause
                        /\ UNCHANGED ti
                   ELSE /\ threads' = [threads EXCEPT ![ti] = "None"]
                        /\ ti' = ti + 1
                        /\ UNCHANGED <<mpc, run_info, panic_cause>>
    /\ UNCHANGED <<pcv, cfgv, chans, workv, histw>>
    /\ UNCHANGED <<fixtures, senders, report>>
    /\ UNCHANGED <<timed_out, ceil_at_timeout, failed_send>>

\* Mutant of main_join: the line is prepared without waiting for the thread.
main_join_PrintBeforeJoin ==
    /\ mpc = "join"
    /\ ti <= Len(threads)
    /\ LET h == threads[ti]
       IN  IF h = "None"
           THEN /\ ti' = ti + 1
                /\ UNCHANGED <<mpc, threads, run_info, panic_cause>>
           ELSE /\ IF wpc[h] # "panicked"
                   THEN /\ threads' = [threads EXCEPT ![ti] = "None"]
                        /\ run_info' = <<h, result[h]>>
                        /\ mpc' = "print"
                        /\ UNCHANGED panic_cause
                   ELSE \* join() returned Err: unwrap() panics
                        /\ threads' = <<>>
                        /\ mpc' = "panicked"
                        /\ panic_cause' = "join"
                        /\ UNCHANGED run_info
                /\ UNCHANGED ti
    /\ UNCHANGED <<pcv, cfgv, chans, workv, histw>>
    /\ UNCHANGED <<fixtures, senders, report>>
    /\ UNCHANGED <<timed_out, ceil_at_timeout, failed_send>>

\* Mutant of main_join: the handle is read without take() and stays in
\* the Vec.
main_join_NoTake ==
    /\ mpc = "join"
    /\ ti <= Len(threads)
    /\ LET h == threads[ti]
       IN  IF h = "None"
           THEN /\ ti' = ti + 1
                /\ UNCHANGED <<mpc, threads, run_info, panic_cause>>
           ELSE /\ Finished(h)
                /\ IF wpc[h] = "stopped"
                   THEN /\ threads' = threads
                        /\ run_info' = <<h, result[h]>>
                        /\ mpc' = "print"
                        /\ UNCHANGED panic_cause
                   ELSE \* join() returned Err: unwrap() panics
                        /\ threads' = <<>>
                        /\ mpc' = "panicked"
                        /\ panic_cause' = "join"
                        /\ UNCHANGED run_info
                /\ UNCHANGED ti
    /\ UNCHANGED <<pcv, cfgv, chans, workv, histw>>
    /\ UNCHANGED <<fixtures, senders, report>>
    /\ UNCHANGED <<timed_out, ceil_at_timeout, failed_send>>

\* `if let Some(handler) = thread.take() { .. handler.join().unwrap(); ..`
main_join ==
    /\ mpc = "join"
    /\ ti <= Len(threads)
    /\ LET h == threads[ti]
       IN  IF h = "None"
           THEN /\ ti' = ti + 1
                /\ UNCHANGED <<mpc, threads, run_info, panic_cause>>
           ELSE /\ Finished(h)
                /\ IF wpc[h] = "stopped"
                   THEN /\ threads' = [threads EXCEPT ![ti] = "None"]
                        /\ run_info' = <<h, result[h]>>
                        /\ mpc' = "print"
                        /\ UNCHANGED panic_cause
                   ELSE \* join() returned Err: unwrap() panics
                        /\ threads' = <<>>
                        /\ mpc' = "panicked"
                        /\ panic_cause' = "join"
                        /\ UNCHANGED run_info
                /\ UNCHANGED ti
    /\ UNCHANGED <<pcv, cfgv, chans, workv, histw>>
    /\ UNCHANGED <<fixtures, senders, report>>
    /\ UNCHANGED <<timed_out, ceil_at_timeout, failed_send>>

\* `info!("Thread {} info: {:?}", thread_name, run_info);`
main_print ==
    /\ mpc = "print"
    /\ report' = Append(report, [name |-> run_info[1], info |-> run_info[2]])
    /\ run_info' = <<>>
    /\ ti' = ti + 1
    /\ mpc' = "join"
    /\ UNCHANGED <<pcv, cfgv, chans, workv, histw, histm>>
    /\ UNCHANGED <<fixtures, senders, threads>>

\* main returns: the process exits successfully.
main_exit ==
    /\ mpc = "join"
    /\ ti > Len(threads)
    /\ mpc' = "exit"
    /\ UNCHANGED <<pcv, cfgv, chans, workv, histw, histm>>
    /\ UNCHANGED <<fixtures, senders, threads, ti, run_info, report>>

\* After a panic of main the process ends abnormally, whatever the other
\* threads are doing.
main_abort ==
    /\ mpc = "panicked"
    /\ mpc' = "aborted"
    /\ UNCHANGED <<pcv, cfgv, chans, workv, histw, histm>>
    /\ UNCHANGED <<fixtures, senders, threads, ti, run_info, report>>

main ==
    \/ main_fixtures
    \/ main_spawn_high
    \/ main_spawn_low
    \/ main_sleep
    \/ main_send
    \/ main_join
    \/ main_print
    \/ main_exit
    \/ main_abort

Next == main \/ \E w \in Workers : thread_fun(w)

Spec == Init /\ [][Next]_vars

SpecU8 == InitU8 /\ [][Next]_vars

\* The operating system schedules every thread that can run; a blocked
\* do_generate_post call returns in the end, and so does a polled
\* gpu_is_available() that keeps being asked.
Fairness ==
    /\ WF_vars(main)
    /\ \A w \in Workers : WF_vars(thread_fun(w))
    /\ \A w \in Workers : SF_vars(thread_poll(w, "Ok(true)"))

FairSpec == Spec /\ Fairness

----------------------------------------------------------------------------
(* paramcache                                                              *)

\* The state at the start of paramcache's main: any command line, any
\* contents of POREP_PARTITIONS (filecoin_proofs::constants); gpu-cpu-test
\* is not run.
InitParamcache ==
    /\ InitCommon /\ parallel = FALSE /\ gpu_stealing = FALSE /\ bits = IterBits
    /\ z_present \in BOOLEAN
    /\ z_values \in SUBSET SectorSizes
    /\ z_present <=> (z_values # {})
    /\ only_election_post \in BOOLEAN
    /\ POREP_PARTITIONS \in SUBSET SectorSizes
    /\ ppc = "sizes"
    /\ sizes = {}
    /\ sector_size = 0
    /\ selected = {}
    /\ calls = <<>>
    /\ ppanic = "none"

PcCall(fn, size) == [fn |-> fn, sector_size |-> size]

\* `let sizes: HashSet<u64> = if matches.is_present(..) { values_t!(..)
\* .unwrap().. } else { PUBLISHED_SECTOR_SIZES.. }`; values_t! returns Err
\* for a value that is not a u64.
paramcache_sizes ==
    /\ ppc = "sizes"
    /\ IF z_present
       THEN \E ok \in BOOLEAN :
              IF ok
              THEN /\ sizes' = z_values
                   /\ selected' = z_values
                   /\ ppc' = "for"
                   /\ UNCHANGED ppanic
              ELSE /\ ppc' = "panicked"
                   /\ ppanic' = "values_t"
                   /\ UNCHANGED <<sizes, selected>>
       ELSE /\ sizes' = PUBLISHED_SECTOR_SIZES
            /\ selected' = PUBLISHED_SECTOR_SIZES
            /\ ppc' = "for"
            /\ UNCHANGED ppanic
    /\ UNCHANGED <<z_present, z_values, only_election_post, POREP_PARTITIONS>>
    /\ UNCHANGED <<sector_size, calls>>
    /\ UNCHANGED gpuv

\* `for sector_size in sizes`: a HashSet yields its elements in any order.
paramcache_for ==
    /\ ppc = "for"
    /\ IF sizes = {}
       THEN /\ ppc' = "done"
            /\ UNCHANGED <<sizes, sector_size>>
       ELSE \E s \in sizes :
              /\ sector_size' = s
              /\ sizes' = sizes \ {s}
              /\ ppc' = "post"
    /\ UNCHANGED <<z_present, z_values, only_election_post, POREP_PARTITIONS>>
    /\ UNCHANGED <<selected, calls, ppanic>>
    /\ UNCHANGED gpuv

\* `cache_post_params(PoStConfig { sector_size, .. })`: it returns, or one
\* of its unwrap/expect calls panics.
paramcache_cache_post_params ==
    /\ ppc = "post"
    /\ calls' = Append(calls, PcCall("cache_post_params", sector_size))
    /\ \E ok \in BOOLEAN :
         IF ok
         THEN ppc' = "if" /\ UNCHANGED ppanic
         ELSE ppc' = "panicked" /\ ppanic' = "cache_post_params"
    /\ UNCHANGED <<z_present, z_values, only_election_post, POREP_PARTITIONS>>
    /\ UNCHANGED <<sizes, sector_size, selected>>
    /\ UNCHANGED gpuv

\* `if !only_election_post {` and the argument of cache_porep_params:
\* `POREP_PARTITIONS.read().unwrap().get(&sector_size)
\* .expect("missing sector size")`
paramcache_if ==
    /\ ppc = "if"
    /\ IF ~only_election_post
       THEN IF sector_size \in POREP_PARTITIONS
            THEN ppc' = "porep" /\ UNCHANGED ppanic
            ELSE ppc' = "panicked" /\ ppanic' = "missing sector size"
       ELSE ppc' = "for" /\ UNCHANGED ppanic
    /\ UNCHANGED <<z_present, z_values, only_election_post, POREP_PARTITIONS>>
    /\ UNCHANGED <<sizes, sector_size, selected, calls>>
    /\ UNCHANGED gpuv

\* `cache_porep_params(PoRepConfig { sector_size, partitions })`: it
\* returns, or one of its unwrap/expect calls panics.
paramcache_cache_porep_params ==
    /\ ppc = "porep"
    /\ calls' = Append(calls, PcCall("cache_porep_params", sector_size))
    /\ \E ok \in BOOLEAN :
         IF ok
         THEN ppc' = "for" /\ UNCHANGED ppanic
         ELSE ppc' = "panicked" /\ ppanic' = "cache_porep_params"
    /\ UNCHANGED <<z_present, z_values, only_election_post, POREP_PARTITIONS>>
    /\ UNCHANGED <<sizes, sector_size, selected>>
    /\ UNCHANGED gpuv

paramcache_main ==
    \/ paramcache_sizes
    \/ paramcache_for
    \/ paramcache_cache_post_params
    \/ paramcache_if
    \/ paramcache_cache_porep_params

SpecParamcache == InitParamcache /\ [][paramcache_main]_vars

----------------------------------------------------------------------------
(* Properties                                                              *)

Spawned == {w \in Workers : wpc[w] # "none"}

\* The Workers the command line asks for.
Configured == IF parallel THEN {"high", "low"} ELSE {"high"}

LockPcs == {"acquire", "poll", "poll_sleep", "release"}

AllLockOps == {"acquire", "is_available", "release"}

\* C1: once the cancellation message has been sent on a Worker's channel,
\* the Worker starts at most one more do_generate_post call, completes at
\* most one more, and increments its counter at most once more.
C1_AtMostOneMoreRun ==
    \A w \in Workers :
        since[w].sig =>
            /\ since[w].started <= 1
            /\ since[w].completed <= 1
            /\ since[w].incr <= 1

\* C1 witness: a Worker that incremented and ran one more call after the
\* message was sent, and then stopped on the message.
C1_Witness ==
    \E w \in Workers :
        /\ since[w].sig
        /\ since[w].incr = 1
        /\ since[w].started = 1
        /\ since[w].completed = 1
        /\ stop_cause[w] = "signal"
        /\ wpc[w] = "stopped"

\* C2: a send on the channel of a Worker that stopped at the ceiling and
\* has returned never makes main fail.
C2_ClosedSendHarmless ==
    \A w \in Workers :
        (stop_cause[w] = "ceiling" /\ wpc[w] = "stopped") =>
            ~(panic_cause = "send" /\ failed_send = rxid[w])

\* C3: the counter is at most the ceiling, which is 255; no step decreases
\* it, and no step changes it once thread_fun has ended; a Worker whose
\* counter is at the ceiling is leaving the loop or has returned, with
\* no panic, and the RunInfo it returns carries the ceiling.
C3_CounterBounded ==
    /\ [](\A w \in Workers :
            /\ U8_MAX = 255
            /\ iteration[w] \in 0..U8_MAX
            /\ iteration[w] = U8_MAX =>
                 /\ wpc[w] \in {"loop", "ret", "stopped"}
                 /\ wpc[w] \in {"ret", "stopped"} => stop_cause[w] = "ceiling"
                 /\ wpc[w] = "stopped" => result[w] = RunInfo(U8_MAX))
    /\ [][\A w \in Workers :
            /\ iteration'[w] >= iteration[w]
            /\ Finished(w) => iteration'[w] = iteration[w] /\ wpc'[w] = wpc[w]]_vars

\* C3 witness: a Worker stopped at the ceiling of the 8-bit counter.
C3_Witness ==
    \E w \in Workers :
        /\ bits = U8Bits
        /\ iteration[w] = 255
        /\ stop_cause[w] = "ceiling"
        /\ wpc[w] = "stopped"

\* C4: only configured Workers are ever spawned; once main is past the
\* spawns, exactly the configured Workers exist ("high", and "low" iff
\* parallel), and each owns the Receiver of a channel of its own, whose
\* Sender main holds.
C4_SpawnCount ==
    /\ Spawned \subseteq Configured
    /\ Len(chans) = Cardinality(Spawned)
    /\ \A w \in Spawned : rxid[w] \in 1..Len(chans)
    /\ \A v, w \in Spawned : v # w => rxid[v] # rxid[w]
    /\ mpc \in {"sleep", "send", "join", "print", "exit"} => Spawned = Configured
    /\ mpc = "sleep" =>
         /\ threads = (IF parallel THEN <<"high", "low">> ELSE <<"high">>)
         /\ senders = [i \in 1..Len(threads) |-> rxid[threads[i]]]

\* C4 witness: both Workers spawned, each with its own channel.
C4_Witness ==
    /\ parallel
    /\ mpc = "sleep"
    /\ Spawned = {"high", "low"}
    /\ rxid["high"] # rxid["low"]

\* C5: a Worker that has called a gpu:: lock operation, holds the lock or
\* is at one of the lock steps was given gpu_stealing = true; that is only
\* ever "high", and only when the gpu-stealing option is set.
C5_LockOnlyWhenStealing ==
    \A w \in Workers :
        /\ (lock_ops[w] # {} \/ gpu_lock[w] \/ wpc[w] \in LockPcs) => stealing[w]
        /\ stealing[w] => (w = "high" /\ gpu_stealing)

\* C5 witness: with both options set, "high" has gone through the three
\* lock operations while "low" has finished an iteration without any.
C5_Witness ==
    /\ parallel
    /\ gpu_stealing
    /\ lock_ops["high"] = AllLockOps
    /\ iteration["low"] >= 1
    /\ lock_ops["low"] = {}

\* Some thread_fun has panicked (do_generate_post or acquire_gpu failed).
WorkerFailed == \E w \in Workers : wpc[w] = "panicked"

\* main has returned after joining every Worker and printing its line.
ExitedWithReports ==
    /\ mpc = "exit"
    /\ \A w \in Spawned : wpc[w] = "stopped"
    /\ Len(report) = Cardinality(Spawned)

\* C6: under fair scheduling, from the end of the sleep on, unless a
\* Worker fails or a Worker's counter was at the ceiling when the sleep
\* ended, every Worker stops and main joins them all, prints their lines
\* and exits successfully.
C6_EventuallyExits ==
    [](timed_out => <>(WorkerFailed \/ ceil_at_timeout \/ ExitedWithReports))

\* The lines main is expected to have printed at a successful exit.
ExpectedReport ==
    LET names == IF parallel THEN <<"high", "low">> ELSE <<"high">>
    IN  [i \in 1..Len(names) |-> [name |-> names[i], info |-> result[names[i]]]]

\* C7: at a successful exit the report is one line per spawned Worker and
\* nothing else, "high" alone or "high" then "low", each with the RunInfo
\* that Worker's thread_fun returned.
C7_ReportExact ==
    mpc = "exit" =>
        /\ report = ExpectedReport
        /\ \A w \in Configured : result[w] = RunInfo(iteration[w])

\* C7 witness: a successful exit of a parallel run, two lines printed.
C7_Witness ==
    /\ mpc = "exit"
    /\ parallel
    /\ Len(report) = 2

\* C8: when a thread_fun has panicked, main never exits successfully and
\* never prints a line for that Worker; under fair scheduling main ends
\* aborted.
C8_FailureIsFatal ==
    /\ [](\A w \in Workers :
            wpc[w] = "panicked" =>
                /\ mpc # "exit"
                /\ \A i \in DOMAIN report : report[i].name # w)
    /\ (WorkerFailed ~> mpc = "aborted")

\* C8 witness: a Worker that failed after its message was sent, found by
\* main's join.
C8_Witness ==
    \E w \in Workers :
        /\ wpc[w] = "panicked"
        /\ since[w].sig
        /\ panic_cause = "join"
        /\ mpc = "aborted"

\* C9 (as claimed): no line is printed while a spawned Worker is unjoined.
C9_ReportAfterAllJoins ==
    report # <<>> => \A i \in DOMAIN threads : threads[i] = "None"

\* C9 (amended): a Worker's line is printed only after that Worker's own
\* join has returned its RunInfo, in the order of the spawns; at a
\* successful exit every Worker has been joined.
C9_ReportAfterOwnJoin ==
    /\ \A i \in DOMAIN report :
         LET w == report[i].name
         IN  /\ wpc[w] = "stopped"
             /\ report[i].info = result[w]
             /\ i \in DOMAIN threads => (w \notin Range(threads) /\ threads[i] = "None")
    /\ mpc = "exit" => \A i \in DOMAIN threads : threads[i] = "None"

\* C9 witness: the line of "high" is printed while "low" is still unjoined.
C9_Witness ==
    /\ parallel
    /\ Len(report) = 1
    /\ report[1].name = "high"
    /\ Len(threads) = 2
    /\ threads[2] = "low"

\* C10: a message is sent, queued or received only after the sleep has
\* ended, and the sleep starts only with the fixtures generated and every
\* configured Worker spawned; Workers are spawned only after the fixtures.
C10_NoSignalBeforeTimeout ==
    /\ \A c \in DOMAIN chans : (chans[c].sent > 0 \/ chans[c].msgs > 0) => timed_out
    /\ \A w \in Workers : (since[w].sig \/ stop_cause[w] = "signal") => timed_out
    /\ failed_send # 0 => timed_out
    /\ (mpc = "sleep" \/ timed_out) => (fixtures /\ Spawned = Configured)
    /\ Spawned # {} => fixtures

\* C10 witness: a Worker stopped by the message, after the sleep.
C10_Witness ==
    \E w \in Workers :
        /\ timed_out
        /\ stop_cause[w] = "signal"
        /\ wpc[w] = "stopped"

\* C11: the iterations of the RunInfo a Worker returns is the number of
\* do_generate_post calls that returned in it, however the loop was left.
C11_IterationsCountCompleted ==
    \A w \in Workers :
        wpc[w] = "stopped" => result[w].iterations = completed[w]

\* C12: the step at gpu::acquire_gpu() never ends the Worker: whatever
\* the call returns, the Worker stays there or goes on to the poll.
C12_BusyNeverFails ==
    [][\A w \in Workers :
          wpc[w] = "acquire" => wpc'[w] \in {"acquire", "poll"}]_vars

\* C13: a Worker leaves its loop only at the try_recv() that follows a
\* returned do_generate_post call, or at the loop test, and returns only
\* after leaving the loop: never from a call in progress nor from the
\* lock steps, whether a message is waiting or not.
C13_StopsOnlyAtCheck ==
    /\ [][\A w \in Workers :
            /\ (wpc'[w] = "ret" /\ wpc[w] # "ret") =>
                  \/ wpc[w] = "recv" /\ completed[w] = iteration[w] + 1
                  \/ wpc[w] = "loop" /\ iteration[w] = U8_MAX
            /\ (wpc'[w] = "stopped" /\ wpc[w] # "stopped") => wpc[w] = "ret"]_vars
    /\ [](\A w \in Workers :
            wpc[w] \in {"working"} \cup LockPcs => stop_cause[w] = "none")

\* C13 witness: the message is waiting while do_generate_post is still
\* running in the Worker.
C13_Witness ==
    \E w \in Workers :
        /\ wpc[w] = "working"
        /\ since[w].sig
        /\ chans[rxid[w]].msgs > 0

\* C14: at try_recv() a Worker goes on to `iteration += 1` exactly when
\* its channel is empty and its Sender alive; with a message or with the
\* Sender gone it leaves the loop with the counter as it is, and in both
\* cases returns RunInfo with that counter, its Receiver dropped, no panic.
C14_ClosedStopsLikeSignal ==
    /\ [][\A w \in Workers :
            (wpc[w] = "recv" /\ wpc'[w] # "recv") =>
                LET c == rxid[w]
                IN  IF chans[c].msgs = 0 /\ chans[c].tx
                    THEN wpc'[w] = "incr"
                    ELSE wpc'[w] = "ret" /\ iteration'[w] = iteration[w]]_vars
    /\ [](\A w \in Workers :
            (wpc[w] = "stopped" /\ stop_cause[w] \in {"signal", "closed"}) =>
                /\ result[w] = RunInfo(iteration[w])
                /\ result[w] = RunInfo(completed[w] - 1)
                /\ ~chans[rxid[w]].rx)

\* C14 witness: a Worker stopped because its Sender was dropped unsent.
C14_Witness ==
    \E w \in Workers :
        /\ wpc[w] = "stopped"
        /\ stop_cause[w] = "closed"
        /\ chans[rxid[w]].sent = 0

\* C15: outside the poll of the lock block a Worker holds no gpu_lock: not
\* while do_generate_post is called or running, not at try_recv(), not
\* after thread_fun has ended.
C15_NoLockDuringWork ==
    \A w \in Workers :
        wpc[w] \notin {"poll", "poll_sleep", "release"} => ~gpu_lock[w]

\* C15 witness: do_generate_post running in a Worker that has acquired and
\* released the lock.
C15_Witness ==
    \E w \in Workers :
        /\ stealing[w]
        /\ wpc[w] = "working"
        /\ {"acquire", "release"} \subseteq lock_ops[w]
        /\ ~gpu_lock[w]

\* C16: a stealing Worker is past the poll (at the release, at the call
\* of do_generate_post or in it) only when gpu_is_available() last
\* returned Ok(true) since acquire_gpu(); after Ok(false) or Err it sleeps
\* and polls again.
C16_WorkOnlyAfterAvailable ==
    /\ [](\A w \in Workers :
            /\ (stealing[w] /\ wpc[w] \in {"release", "work", "working"}) =>
                  polled[w] = "Ok(true)"
            /\ wpc[w] = "poll_sleep" => polled[w] \in {"Ok(false)", "Err"}
            /\ wpc[w] = "poll" => polled[w] \in {"none", "Ok(false)", "Err"})
    /\ [][\A w \in Workers :
            /\ (wpc[w] = "poll" /\ wpc'[w] # "poll" /\ polled'[w] # "Ok(true)") =>
                  wpc'[w] = "poll_sleep"
            /\ (wpc[w] = "poll_sleep" /\ wpc'[w] # "poll_sleep") =>
                  wpc'[w] = "poll"]_vars

\* C16 witness: a Worker sleeping before the next poll after an Err.
C16_Witness ==
    \E w \in Workers :
        /\ wpc[w] = "poll_sleep"
        /\ polled[w] = "Err"

\* C19: gpu_is_available() is called only with gpu_lock held, acquired
\* before in the same iteration, and gpu_lock is released by
\* drop_acquire_lock only after gpu_is_available() returned Ok(true).
C19_HandleHeldWhilePolling ==
    /\ [](\A w \in Workers :
            wpc[w] \in {"poll", "poll_sleep", "release"} =>
                gpu_lock[w] /\ "acquire" \in lock_ops[w])
    /\ [][\A w \in Workers :
            /\ (polled'[w] # polled[w] /\ polled'[w] # "none") =>
                  (gpu_lock[w] /\ gpu_lock'[w])
            /\ (gpu_lock[w] /\ ~gpu_lock'[w] /\ wpc'[w] # "panicked") =>
                  (wpc[w] = "release" /\ polled[w] = "Ok(true)")]_vars

\* C19 witness: a Worker sleeping between polls, the handle held, after
\* Ok(false).
C19_Witness ==
    \E w \in Workers :
        /\ wpc[w] = "poll_sleep"
        /\ polled[w] = "Ok(false)"
        /\ gpu_lock[w]

\* The entries of the report that carry the name of w, and whether main
\* holds the RunInfo of w between its join and its info! line.
ReportsOf(w) == {i \in DOMAIN report : report[i].name = w}

\* The number of times main has taken the RunInfo of w from a join.
ReadsOf(w) ==
    Cardinality(ReportsOf(w))
        + (IF run_info # <<>> /\ run_info[1] = w THEN 1 ELSE 0)

\* C17: a thread that has returned its RunInfo does nothing more: no call
\* of do_generate_post, no lock step, no try_recv, no change of its counter
\* or its RunInfo, which it sets once, at the return. main takes that
\* RunInfo from a join at most once, and then the handle is gone.
C17_StoppedIsTerminal ==
    /\ [][\A w \in Workers :
            /\ wpc[w] = "stopped" =>
                  /\ wpc'[w] = "stopped"
                  /\ result'[w] = result[w]
                  /\ iteration'[w] = iteration[w]
                  /\ completed'[w] = completed[w]
                  /\ lock_ops'[w] = lock_ops[w]
                  /\ polled'[w] = polled[w]
                  /\ gpu_lock'[w] = gpu_lock[w]
                  /\ stop_cause'[w] = stop_cause[w]
                  /\ chans'[rxid[w]].msgs = chans[rxid[w]].msgs
                  /\ chans'[rxid[w]].rx = chans[rxid[w]].rx
            /\ result'[w] # result[w] =>
                  (wpc[w] = "ret" /\ wpc'[w] = "stopped" /\ result[w] = <<>>)
            /\ ReadsOf(w)' > ReadsOf(w) =>
                  (mpc = "join" /\ wpc[w] = "stopped" /\ threads[ti] = w)]_vars
    /\ [](\A w \in Workers :
            /\ (wpc[w] = "stopped") <=> (result[w] # <<>>)
            /\ ReadsOf(w) <= 1
            /\ ReadsOf(w) = 1 => (wpc[w] = "stopped" /\ w \notin Range(threads)))

\* C17 witness: main has printed the RunInfo of a returned thread and is
\* past the join loop.
C17_Witness ==
    \E w \in Workers :
        /\ wpc[w] = "stopped"
        /\ ReportsOf(w) # {}
        /\ mpc = "exit"

\* C18: over a run at most one message is sent on each channel; it is sent
\* by main's send loop, which consumes the Sender; a live Sender is one
\* main still holds in `senders`.
C18_OneSignalPerChannel ==
    /\ [](\A c \in DOMAIN chans :
            /\ chans[c].sent <= 1
            /\ chans[c].msgs <= chans[c].sent
            /\ chans[c].tx => (c \in Range(senders) /\ chans[c].sent = 0))
    /\ [][\A c \in DOMAIN chans :
            chans'[c].sent # chans[c].sent =>
                /\ mpc = "send"
                /\ c = Head(senders)
                /\ c \notin Range(senders')
                /\ ~chans'[c].tx]_vars

\* C18 witness: both channels have carried their one message.
C18_Witness ==
    /\ Len(chans) = 2
    /\ \A c \in DOMAIN chans : chans[c].sent = 1

\* The positions in `calls` of the calls of fn for sector size s.
CallsOf(fn, s) == {i \in DOMAIN calls : calls[i] = PcCall(fn, s)}

\* C20: in paramcache, once cache_post_params has returned for a sector
\* size, cache_porep_params is called for that size next exactly when
\* --only-election-post is not given; when main returns, every selected
\* size has had its cache_post_params call, followed by a
\* cache_porep_params call for the same size exactly when the flag is not
\* given; with the flag given cache_porep_params is never called.
C20_PostThenPorepIff ==
    /\ [][ppc = "if" => ((ppc' = "porep") <=> ~only_election_post)]_vars
    /\ [](ppc = "done" =>
            \A s \in selected :
                /\ CallsOf("cache_post_params", s) # {}
                /\ (\E i \in CallsOf("cache_post_params", s) :
                      \E j \in CallsOf("cache_porep_params", s) : i < j)
                      <=> ~only_election_post)
    /\ [](only_election_post =>
            \A s \in SectorSizes : CallsOf("cache_porep_params", s) = {})

====
